---- MODULE Spec2Model ----
(***************************************************************************)
(* Relational data model of profiles_api: the five tables declared by      *)
(* migration 0002 (and the user table it references), operated through the *)
(* add / change / delete views that admin.py registers for each model.     *)
(*                                                                         *)
(* A row is a record; a table is a function from the primary keys present  *)
(* to rows.  Character data is represented by its length (the only thing   *)
(* the schema constrains), timestamps by a tick counter.                   *)
(***************************************************************************)
EXTENDS Integers, FiniteSets

VARIABLES userProfiles, feedItems, products, invoiceItems, invoices,
          nextId, issued, now, result

tables == <<userProfiles, feedItems, products, invoiceItems, invoices>>
vars == <<userProfiles, feedItems, products, invoiceItems, invoices,
          nextId, issued, now, result>>

(* ---------------------------- bounds ----------------------------------- *)
MaxRows == 4
MaxTime == 1

(* ---------------------------- schema ----------------------------------- *)
AUTH_USER_MODEL == "UserProfile"

Models == {"UserProfile", "ProfileFeedItem", "Product", "InvoiceItem", "Invoice"}

Product_name_max_length == 50
ProfileFeedItem_status_text_max_length == 255
FloatField_default == 0

(* created_on declared as a plain DateTimeField. *)
ProfileFeedItem_created_on_editable == FALSE
ProfileFeedItem_created_on_auto_now_add == TRUE
Invoice_date_auto_now_add == TRUE

(* user_profile declared without the cascade. *)
ProfileFeedItem_user_profile_DoNothing ==
    [model |-> "ProfileFeedItem", field |-> "user_profile",
     to |-> AUTH_USER_MODEL, on_delete |-> "DO_NOTHING"]
ProfileFeedItem_user_profile ==
    [model |-> "ProfileFeedItem", field |-> "user_profile",
     to |-> AUTH_USER_MODEL, on_delete |-> "CASCADE"]

(* product declared without the cascade. *)
InvoiceItem_product_DoNothing ==
    [model |-> "InvoiceItem", field |-> "product",
     to |-> "ProfileFeedItem", on_delete |-> "DO_NOTHING"]

(* product declared against the Product table, as its name suggests. *)
InvoiceItem_product_ToProduct ==
    [model |-> "InvoiceItem", field |-> "product",
     to |-> "Product", on_delete |-> "CASCADE"]
InvoiceItem_product ==
    [model |-> "InvoiceItem", field |-> "product",
     to |-> "ProfileFeedItem", on_delete |-> "CASCADE"]

(* client declared without the cascade. *)
Invoice_client_DoNothing ==
    [model |-> "Invoice", field |-> "client",
     to |-> AUTH_USER_MODEL, on_delete |-> "DO_NOTHING"]

Invoice_client ==
    [model |-> "Invoice", field |-> "client",
     to |-> AUTH_USER_MODEL, on_delete |-> "CASCADE"]

ForeignKeys == {ProfileFeedItem_user_profile, InvoiceItem_product, Invoice_client}

(* ---------------------------- inputs ----------------------------------- *)
(* Ids(m): every key the table has handed out, present or deleted, and the *)
(* next one, which no row has had.  A string is given by its length.  The  *)
(* float fields carry no constraint; their inputs are the declared default.*)
Ids(m) == 1..nextId[m]
Times == 0..MaxTime
StatusTexts == {1, ProfileFeedItem_status_text_max_length,
                ProfileFeedItem_status_text_max_length + 1}
Names == {1, Product_name_max_length, Product_name_max_length + 1}
Floats == {FloatField_default}

(* ---------------------------- store ------------------------------------ *)
Rows(m) ==
    CASE m = "UserProfile" -> userProfiles
      [] m = "ProfileFeedItem" -> feedItems
      [] m = "Product" -> products
      [] m = "InvoiceItem" -> invoiceItems
      [] m = "Invoice" -> invoices

Exists(m, i) == i \in DOMAIN Rows(m)

Without(t, S) == [i \in (DOMAIN t) \ S |-> t[i]]
With(t, r) == [i \in (DOMAIN t) \cup {r.id} |-> IF i = r.id THEN r ELSE t[i]]

(* Key taken as one more than the largest key present (a deleted tail is reused). *)
AutoField_MaxPlusOne(m) ==
    IF DOMAIN Rows(m) = {} THEN 1
    ELSE (CHOOSE i \in DOMAIN Rows(m) : \A j \in DOMAIN Rows(m) : j <= i) + 1
(* AutoField: the key comes from the table's sequence, never from the caller. *)
AutoField(m) == nextId[m]

(* Foreign key stored without a constraint. *)
FKValid_Unconstrained(fk, v) == TRUE
(* A foreign key value is accepted when the row it names is in the target table. *)
FKValid(fk, v) == Exists(fk.to, v)

(* Length declared but never validated. *)
MaxLengthValid_Unchecked(len, max_length) == TRUE
(* CharField(max_length=n): the form validator rejects longer values. *)
MaxLengthValid(len, max_length) == len <= max_length

(* Rows that reference a row of S through a foreign key declared CASCADE. *)
Referrers(S) ==
    UNION {{<<fk.model, i>> : i \in {j \in DOMAIN Rows(fk.model) :
                                       <<fk.to, Rows(fk.model)[j][fk.field]>> \in S}} :
           fk \in {f \in ForeignKeys : f.on_delete = "CASCADE"}}

(* Collector that stops after the direct referrers. *)
Collect_OneLevel(S) == S \cup Referrers(S)

RECURSIVE Collect(_)
Collect(S) == IF Referrers(S) \subseteq S THEN S ELSE Collect(S \cup Referrers(S))

Collected(S, m) == {p[2] : p \in {q \in S : q[1] = m}}

(* What the caller sees of the last operation: the errors raised (none on  *)
(* success) and, for a delete, the rows the collector removed.             *)
Ok(op, m, i) == [op |-> op, model |-> m, id |-> i, errors |-> {}, deleted |-> {}]
Failed(op, m, i, errs) ==
    [op |-> op, model |-> m, id |-> i, errors |-> errs, deleted |-> {}]
Deleted(m, i, S) ==
    [op |-> "delete", model |-> m, id |-> i, errors |-> {}, deleted |-> S]

(* Rows inserted so far, over all tables. *)
Inserted == Cardinality(issued["UserProfile"]) + Cardinality(issued["ProfileFeedItem"])
            + Cardinality(issued["Product"]) + Cardinality(issued["InvoiceItem"])
            + Cardinality(issued["Invoice"])

Sequence(m) == /\ nextId' = [nextId EXCEPT ![m] = @ + 1]
               /\ issued' = [issued EXCEPT ![m] = @ \cup {AutoField(m)}]

(* ---------------------------- Init ------------------------------------- *)
Empty == [i \in {} |-> 0]

Init ==
    /\ userProfiles = Empty
    /\ feedItems = Empty
    /\ products = Empty
    /\ invoiceItems = Empty
    /\ invoices = Empty
    /\ nextId = [m \in Models |-> 1]
    /\ issued = [m \in Models |-> {}]
    /\ now = 0
    /\ result = Ok("none", "none", 0)

(* ---------------------------- clock ------------------------------------ *)
Tick ==
    /\ now < MaxTime
    /\ now' = now + 1
    /\ UNCHANGED <<tables, nextId, issued, result>>

(* ---------------------------- validation ------------------------------ *)
FeedItemErrors(text, user) ==
    (IF MaxLengthValid(text, ProfileFeedItem_status_text_max_length)
        THEN {} ELSE {"ValidationError"})
    \cup (IF FKValid(ProfileFeedItem_user_profile, user) THEN {} ELSE {"ConstraintError"})

ProductErrors(name) ==
    IF MaxLengthValid(name, Product_name_max_length) THEN {} ELSE {"ValidationError"}

InvoiceItemErrors(product) ==
    IF FKValid(InvoiceItem_product, product) THEN {} ELSE {"ConstraintError"}

InvoiceErrors(client) ==
    IF FKValid(Invoice_client, client) THEN {} ELSE {"ConstraintError"}

(* DateTimeField(auto_now_add=True): stamped with the clock on insert and  *)
(* excluded from the forms; otherwise the field is an ordinary form input. *)
OnInsert(auto_now_add, input) == IF auto_now_add THEN now ELSE input
OnUpdate(auto_now_add, old, input) == IF auto_now_add THEN old ELSE input

(* A field with auto_now_add is not editable: the form submits no value for it. *)
FormTimes(auto_now_add) == IF auto_now_add THEN {now} ELSE Times

(* ---------------------------- UserProfile ------------------------------ *)
CreateUserProfile ==
    /\ Inserted < MaxRows
    /\ userProfiles' = With(userProfiles, [id |-> AutoField("UserProfile")])
    /\ Sequence("UserProfile")
    /\ result' = Ok("create", "UserProfile", AutoField("UserProfile"))
    /\ UNCHANGED <<feedItems, products, invoiceItems, invoices, now>>

UpdateUserProfile(i) ==
    /\ result' = IF Exists("UserProfile", i)
                    THEN Ok("update", "UserProfile", i)
                    ELSE Failed("update", "UserProfile", i, {"NotFoundError"})
    /\ UNCHANGED <<tables, nextId, issued, now>>

(* ---------------------------- ProfileFeedItem -------------------------- *)
CreateProfileFeedItem(text, user, t) ==
    LET m == "ProfileFeedItem"
        errs == FeedItemErrors(text, user)
    IN  IF errs = {}
        THEN /\ Inserted < MaxRows
             /\ feedItems' = With(feedItems,
                    [id |-> AutoField(m), status_text |-> text,
                     created_on |-> OnInsert(ProfileFeedItem_created_on_auto_now_add, t),
                     user_profile |-> user])
             /\ Sequence(m)
             /\ result' = Ok("create", m, AutoField(m))
             /\ UNCHANGED <<userProfiles, products, invoiceItems, invoices, now>>
        ELSE /\ result' = Failed("create", m, 0, errs)
             /\ UNCHANGED <<tables, nextId, issued, now>>

UpdateProfileFeedItem(i, text, user, t) ==
    LET m == "ProfileFeedItem"
        errs == IF Exists(m, i) THEN FeedItemErrors(text, user) ELSE {"NotFoundError"}
    IN  IF errs = {}
        THEN /\ feedItems' = With(feedItems,
                    [id |-> i, status_text |-> text,
                     created_on |-> OnUpdate(ProfileFeedItem_created_on_auto_now_add,
                                             feedItems[i].created_on, t),
                     user_profile |-> user])
             /\ result' = Ok("update", m, i)
             /\ UNCHANGED <<userProfiles, products, invoiceItems, invoices,
                            nextId, issued, now>>
        ELSE /\ result' = Failed("update", m, i, errs)
             /\ UNCHANGED <<tables, nextId, issued, now>>

(* ---------------------------- Product ---------------------------------- *)
CreateProduct(name, price, quantity) ==
    LET m == "Product"
        errs == ProductErrors(name)
    IN  IF errs = {}
        THEN /\ Inserted < MaxRows
             /\ products' = With(products,
                    [id |-> AutoField(m), name |-> name, price |-> price,
                     quantity |-> quantity])
             /\ Sequence(m)
             /\ result' = Ok("create", m, AutoField(m))
             /\ UNCHANGED <<userProfiles, feedItems, invoiceItems, invoices, now>>
        ELSE /\ result' = Failed("create", m, 0, errs)
             /\ UNCHANGED <<tables, nextId, issued, now>>

UpdateProduct(i, name, price, quantity) ==
    LET m == "Product"
        errs == IF Exists(m, i) THEN ProductErrors(name) ELSE {"NotFoundError"}
    IN  IF errs = {}
        THEN /\ products' = With(products,
                    [id |-> i, name |-> name, price |-> price, quantity |-> quantity])
             /\ result' = Ok("update", m, i)
             /\ UNCHANGED <<userProfiles, feedItems, invoiceItems, invoices,
                            nextId, issued, now>>
        ELSE /\ result' = Failed("update", m, i, errs)
             /\ UNCHANGED <<tables, nextId, issued, now>>

(* ---------------------------- InvoiceItem ------------------------------ *)
CreateInvoiceItem(quantity, price, total, product) ==
    LET m == "InvoiceItem"
        errs == InvoiceItemErrors(product)
    IN  IF errs = {}
        THEN /\ Inserted < MaxRows
             /\ invoiceItems' = With(invoiceItems,
                    [id |-> AutoField(m), quantity |-> quantity, price |-> price,
                     total |-> total, product |-> product])
             /\ Sequence(m)
             /\ result' = Ok("create", m, AutoField(m))
             /\ UNCHANGED <<userProfiles, feedItems, products, invoices, now>>
        ELSE /\ result' = Failed("create", m, 0, errs)
             /\ UNCHANGED <<tables, nextId, issued, now>>

UpdateInvoiceItem(i, quantity, price, total, product) ==
    LET m == "InvoiceItem"
        errs == IF Exists(m, i) THEN InvoiceItemErrors(product) ELSE {"NotFoundError"}
    IN  IF errs = {}
        THEN /\ invoiceItems' = With(invoiceItems,
                    [id |-> i, quantity |-> quantity, price |-> price,
                     total |-> total, product |-> product])
             /\ result' = Ok("update", m, i)
             /\ UNCHANGED <<userProfiles, feedItems, products, invoices,
                            nextId, issued, now>>
        ELSE /\ result' = Failed("update", m, i, errs)
             /\ UNCHANGED <<tables, nextId, issued, now>>

(* ---------------------------- Invoice ---------------------------------- *)
CreateInvoice(client, t) ==
    LET m == "Invoice"
        errs == InvoiceErrors(client)
    IN  IF errs = {}
        THEN /\ Inserted < MaxRows
             /\ invoices' = With(invoices,
                    [id |-> AutoField(m),
                     date |-> OnInsert(Invoice_date_auto_now_add, t),
                     client |-> client])
             /\ Sequence(m)
             /\ result' = Ok("create", m, AutoField(m))
             /\ UNCHANGED <<userProfiles, feedItems, products, invoiceItems, now>>
        ELSE /\ result' = Failed("create", m, 0, errs)
             /\ UNCHANGED <<tables, nextId, issued, now>>

UpdateInvoice(i, client, t) ==
    LET m == "Invoice"
        errs == IF Exists(m, i) THEN InvoiceErrors(client) ELSE {"NotFoundError"}
    IN  IF errs = {}
        THEN /\ invoices' = With(invoices,
                    [id |-> i,
                     date |-> OnUpdate(Invoice_date_auto_now_add, invoices[i].date, t),
                     client |-> client])
             /\ result' = Ok("update", m, i)
             /\ UNCHANGED <<userProfiles, feedItems, products, invoiceItems,
                            nextId, issued, now>>
        ELSE /\ result' = Failed("update", m, i, errs)
             /\ UNCHANGED <<tables, nextId, issued, now>>

(* Delete that treats a missing row as already done. *)
Delete_Idempotent(m, i) ==
    LET S == IF Exists(m, i) THEN Collect({<<m, i>>}) ELSE {}
    IN  /\ userProfiles' = Without(userProfiles, Collected(S, "UserProfile"))
        /\ feedItems' = Without(feedItems, Collected(S, "ProfileFeedItem"))
        /\ products' = Without(products, Collected(S, "Product"))
        /\ invoiceItems' = Without(invoiceItems, Collected(S, "InvoiceItem"))
        /\ invoices' = Without(invoices, Collected(S, "Invoice"))
        /\ result' = Deleted(m, i, S)
        /\ UNCHANGED <<nextId, issued, now>>

(* ---------------------------- Delete ----------------------------------- *)
(* The delete view collects the row and everything that references it      *)
(* through CASCADE foreign keys, and removes the whole set in one step.     *)
Delete(m, i) ==
    IF Exists(m, i)
    THEN LET S == Collect({<<m, i>>})
         IN  /\ userProfiles' = Without(userProfiles, Collected(S, "UserProfile"))
             /\ feedItems' = Without(feedItems, Collected(S, "ProfileFeedItem"))
             /\ products' = Without(products, Collected(S, "Product"))
             /\ invoiceItems' = Without(invoiceItems, Collected(S, "InvoiceItem"))
             /\ invoices' = Without(invoices, Collected(S, "Invoice"))
             /\ result' = Deleted(m, i, S)
             /\ UNCHANGED <<nextId, issued, now>>
    ELSE /\ result' = Failed("delete", m, i, {"NotFoundError"})
         /\ UNCHANGED <<tables, nextId, issued, now>>

DeleteUserProfile(i) == Delete("UserProfile", i)
DeleteProfileFeedItem(i) == Delete("ProfileFeedItem", i)
DeleteProduct(i) == Delete("Product", i)
DeleteInvoiceItem(i) == Delete("InvoiceItem", i)
DeleteInvoice(i) == Delete("Invoice", i)

(* ---------------------------- Next ------------------------------------- *)
Next ==
    \/ Tick
    \/ CreateUserProfile
    \/ \E i \in Ids("UserProfile") : UpdateUserProfile(i)
    \/ \E i \in Ids("UserProfile") : DeleteUserProfile(i)
    \/ \E text \in StatusTexts, user \in Ids("UserProfile"),
          t \in FormTimes(ProfileFeedItem_created_on_auto_now_add) :
          CreateProfileFeedItem(text, user, t)
    \/ \E i \in Ids("ProfileFeedItem"), text \in StatusTexts,
          user \in Ids("UserProfile"),
          t \in FormTimes(ProfileFeedItem_created_on_auto_now_add) :
          UpdateProfileFeedItem(i, text, user, t)
    \/ \E i \in Ids("ProfileFeedItem") : DeleteProfileFeedItem(i)
    \/ \E name \in Names, price \in Floats, quantity \in Floats :
          CreateProduct(name, price, quantity)
    \/ \E i \in Ids("Product"), name \in Names, price \in Floats, quantity \in Floats :
          UpdateProduct(i, name, price, quantity)
    \/ \E i \in Ids("Product") : DeleteProduct(i)
    \/ \E quantity \in Floats, price \in Floats, total \in Floats,
          product \in Ids(InvoiceItem_product.to) :
          CreateInvoiceItem(quantity, price, total, product)
    \/ \E i \in Ids("InvoiceItem"), quantity \in Floats, price \in Floats,
          total \in Floats, product \in Ids(InvoiceItem_product.to) :
          UpdateInvoiceItem(i, quantity, price, total, product)
    \/ \E i \in Ids("InvoiceItem") : DeleteInvoiceItem(i)
    \/ \E client \in Ids("UserProfile"), t \in FormTimes(Invoice_date_auto_now_add) : CreateInvoice(client, t)
    \/ \E i \in Ids("Invoice"), client \in Ids("UserProfile"), t \in FormTimes(Invoice_date_auto_now_add) :
          UpdateInvoice(i, client, t)
    \/ \E i \in Ids("Invoice") : DeleteInvoice(i)

Spec == Init /\ [][Next]_vars

(* ======================== properties =================================== *)
store == <<tables, nextId, issued>>

DeletedNow(m, i) == i \in DOMAIN Rows(m) /\ result' = Deleted(m, i, result'.deleted)

(* C1: a successful Delete(u) of a UserProfile leaves no ProfileFeedItem   *)
(* whose user_profile was u and no Invoice whose client was u.             *)
C1_UserProfileCascade ==
    [][\A u \in DOMAIN userProfiles :
          DeletedNow("UserProfile", u) =>
             /\ u \notin DOMAIN userProfiles'
             /\ \A f \in DOMAIN feedItems :
                   feedItems[f].user_profile = u => f \notin DOMAIN feedItems'
             /\ \A v \in DOMAIN invoices :
                   invoices[v].client = u => v \notin DOMAIN invoices']_vars

C1_Witness ==
    /\ result.op = "delete" /\ result.model = "UserProfile" /\ result.errors = {}
    /\ \E p \in result.deleted : p[1] = "ProfileFeedItem"
    /\ \E p \in result.deleted : p[1] = "Invoice"

(* C2: deleting the ProfileFeedItem that an InvoiceItem's product key      *)
(* references removes that InvoiceItem.                                    *)
C2_InvoiceItemCascade ==
    [][\A f \in DOMAIN feedItems :
          DeletedNow("ProfileFeedItem", f) =>
             \A i \in DOMAIN invoiceItems :
                invoiceItems[i].product = f => i \notin DOMAIN invoiceItems']_vars

C2_Witness ==
    /\ result.op = "delete" /\ result.model = "ProfileFeedItem" /\ result.errors = {}
    /\ \E p \in result.deleted : p[1] = "InvoiceItem"

(* C3: Delete(u) of a UserProfile removes, in the same step, every         *)
(* InvoiceItem whose product was a ProfileFeedItem owned by u; no step     *)
(* leaves an InvoiceItem behind whose feed item is gone.                   *)
C3_TransitiveCascade ==
    [][/\ \A u \in DOMAIN userProfiles :
             DeletedNow("UserProfile", u) =>
                \A i \in DOMAIN invoiceItems :
                   (/\ invoiceItems[i].product \in DOMAIN feedItems
                    /\ feedItems[invoiceItems[i].product].user_profile = u)
                   => i \notin DOMAIN invoiceItems'
       /\ \A i \in DOMAIN invoiceItems' :
             invoiceItems'[i].product \in DOMAIN feedItems']_vars

C3_Witness ==
    /\ result.op = "delete" /\ result.model = "UserProfile" /\ result.errors = {}
    /\ \E p \in result.deleted : p[1] = "ProfileFeedItem"
    /\ \E p \in result.deleted : p[1] = "InvoiceItem"

(* C4: in every reachable state each user_profile and client names an      *)
(* existing UserProfile and each InvoiceItem.product names an existing     *)
(* ProfileFeedItem.                                                        *)
C4_ReferentialIntegrity ==
    /\ \A f \in DOMAIN feedItems : feedItems[f].user_profile \in DOMAIN userProfiles
    /\ \A v \in DOMAIN invoices : invoices[v].client \in DOMAIN userProfiles
    /\ \A i \in DOMAIN invoiceItems : invoiceItems[i].product \in DOMAIN feedItems

C4_Witness ==
    /\ feedItems # Empty /\ invoiceItems # Empty
    /\ result.op = "update" /\ result.model = "InvoiceItem" /\ result.errors = {}

(* C5: a Create of a ProfileFeedItem, Invoice or InvoiceItem whose foreign *)
(* key names no row of the referenced table reports ConstraintError and    *)
(* changes no table and no key sequence.                                   *)
C5_CreateMissingForeignKey ==
    [][/\ result'.op = "create" /\ result'.model = "ProfileFeedItem" =>
             \A text \in StatusTexts, user \in Ids("UserProfile"), t \in Times :
                (user \notin DOMAIN userProfiles /\ CreateProfileFeedItem(text, user, t))
                => ("ConstraintError" \in result'.errors /\ UNCHANGED store)
       /\ result'.op = "create" /\ result'.model = "Invoice" =>
             \A client \in Ids("UserProfile"), t \in Times :
                (client \notin DOMAIN userProfiles /\ CreateInvoice(client, t))
                => ("ConstraintError" \in result'.errors /\ UNCHANGED store)
       /\ result'.op = "create" /\ result'.model = "InvoiceItem" =>
             \A quantity \in Floats, price \in Floats, total \in Floats,
                product \in Ids("ProfileFeedItem") \cup Ids("Product") :
                (/\ product \notin DOMAIN feedItems
                 /\ CreateInvoiceItem(quantity, price, total, product))
                => ("ConstraintError" \in result'.errors /\ UNCHANGED store)
       /\ (result'.op = "create" /\ "ConstraintError" \in result'.errors)
             => UNCHANGED store]_vars

C5_Witness ==
    /\ result = Failed("create", "InvoiceItem", 0, {"ConstraintError"})
    /\ userProfiles # Empty
    /\ products # Empty
    /\ issued["ProfileFeedItem"] # {}

(* C6: created_on and date are set by Create to the time of creation and   *)
(* keep that value in every later state in which the row exists.           *)
C6_TimestampImmutable ==
    [][/\ \A f \in DOMAIN feedItems' :
             feedItems'[f].created_on =
                IF f \in DOMAIN feedItems THEN feedItems[f].created_on ELSE now
       /\ \A v \in DOMAIN invoices' :
             invoices'[v].date =
                IF v \in DOMAIN invoices THEN invoices[v].date ELSE now]_vars

C6_Witness ==
    /\ result.op = "update" /\ result.model = "ProfileFeedItem" /\ result.errors = {}
    /\ result.id \in DOMAIN feedItems
    /\ feedItems[result.id].created_on < now
    /\ \E v \in DOMAIN invoices : invoices[v].date < now

(* C7: every id a Create assigns in Product, InvoiceItem or Invoice is     *)
(* greater than every id assigned in that table before, deleted rows       *)
(* included.                                                               *)
C7_IdsIncrease ==
    [][/\ \A i \in (DOMAIN products') \ DOMAIN products :
             \A j \in issued["Product"] \cup DOMAIN products : i > j
       /\ \A i \in (DOMAIN invoiceItems') \ DOMAIN invoiceItems :
             \A j \in issued["InvoiceItem"] \cup DOMAIN invoiceItems : i > j
       /\ \A i \in (DOMAIN invoices') \ DOMAIN invoices :
             \A j \in issued["Invoice"] \cup DOMAIN invoices : i > j]_vars

C7_Witness ==
    /\ result = Ok("create", "InvoiceItem", 2)
    /\ 2 \in DOMAIN invoiceItems
    /\ 1 \notin DOMAIN invoiceItems

(* C8: Update and Delete of an id absent from the targeted table report    *)
(* NotFoundError and change no table.                                      *)
UpdateOf(m, i) ==
    CASE m = "UserProfile" -> UpdateUserProfile(i)
      [] m = "ProfileFeedItem" ->
            \E text \in StatusTexts, user \in Ids("UserProfile"), t \in Times :
               UpdateProfileFeedItem(i, text, user, t)
      [] m = "Product" ->
            \E name \in Names, price \in Floats, quantity \in Floats :
               UpdateProduct(i, name, price, quantity)
      [] m = "InvoiceItem" ->
            \E quantity \in Floats, price \in Floats, total \in Floats,
               product \in Ids("ProfileFeedItem") :
               UpdateInvoiceItem(i, quantity, price, total, product)
      [] m = "Invoice" ->
            \E client \in Ids("UserProfile"), t \in Times : UpdateInvoice(i, client, t)

C8_AbsentIdNotFound ==
    [][result'.op \in {"update", "delete"} =>
          LET m == result'.model
              i == result'.id
          IN  (i \notin DOMAIN Rows(m) /\ (UpdateOf(m, i) \/ Delete(m, i)))
              => (result'.errors = {"NotFoundError"} /\ UNCHANGED store)]_vars

C8_Witness ==
    /\ result = Failed("delete", "ProfileFeedItem", 1, {"NotFoundError"})
    /\ 1 \in issued["ProfileFeedItem"]
    /\ issued["UserProfile"] # {} /\ userProfiles = Empty

(* C9: a Create of a ProfileFeedItem with status_text longer than 255      *)
(* reports ValidationError and inserts nothing; no ProfileFeedItem ever    *)
(* holds a status_text longer than 255.                                    *)
C9_StatusTextLength ==
    [][/\ result'.op = "create" /\ result'.model = "ProfileFeedItem" =>
             \A text \in StatusTexts, user \in Ids("UserProfile"), t \in Times :
                (text > 255 /\ CreateProfileFeedItem(text, user, t))
                => ("ValidationError" \in result'.errors /\ UNCHANGED store)
       /\ \A f \in DOMAIN feedItems' : feedItems'[f].status_text <= 255]_vars

C9_Witness ==
    /\ result = Failed("create", "ProfileFeedItem", 0, {"ValidationError"})
    /\ \E f \in DOMAIN feedItems : feedItems[f].status_text = 255

(* C10: a successful Delete removes the targeted row and the rows that     *)
(* reference it, directly or through a ProfileFeedItem, and nothing else;  *)
(* every remaining row is unchanged.                                       *)
FeedItemsOf(U) == {f \in DOMAIN feedItems : feedItems[f].user_profile \in U}
InvoicesOf(U) == {v \in DOMAIN invoices : invoices[v].client \in U}
InvoiceItemsOf(F) == {i \in DOMAIN invoiceItems : invoiceItems[i].product \in F}

C10_DeleteFrame ==
    [][\A m \in Models : \A i \in DOMAIN Rows(m) :
          DeletedNow(m, i) =>
             LET U == IF m = "UserProfile" THEN {i} ELSE {}
                 F == IF m = "ProfileFeedItem" THEN {i} ELSE FeedItemsOf(U)
                 P == IF m = "Product" THEN {i} ELSE {}
                 V == IF m = "Invoice" THEN {i} ELSE InvoicesOf(U)
                 L == IF m = "InvoiceItem" THEN {i} ELSE InvoiceItemsOf(F)
             IN  /\ userProfiles' = Without(userProfiles, U)
                 /\ feedItems' = Without(feedItems, F)
                 /\ products' = Without(products, P)
                 /\ invoices' = Without(invoices, V)
                 /\ invoiceItems' = Without(invoiceItems, L)]_vars

C10_Witness ==
    /\ result.op = "delete" /\ result.model = "Invoice" /\ result.errors = {}
    /\ result.deleted = {<<"Invoice", result.id>>}
    /\ invoiceItems # Empty
    /\ feedItems # Empty /\ userProfiles # Empty
====
